---- MODULE Spec2Model ----
(***************************************************************************)
(* A model of the two-pass MIPS assembler of src/assembly.py.               *)
(*                                                                         *)
(* Text is modelled character by character: a Python str is a sequence of  *)
(* one-character strings, so comment stripping, the label regular          *)
(* expression, tokenisation, int() and the binary/hex formatting are       *)
(* computed the way the code computes them.  The instruction word, an     *)
(* unbounded Python int that may exceed 31 bits, is kept as its sequence   *)
(* of binary digits.                                                       *)
(***************************************************************************)
EXTENDS Integers, Sequences, FiniteSets, TLC

VARIABLES
    lines,          \* main: lines = sys.stdin.readlines()
    pc,             \* where main is: first_pass, second_pass, print, done, error
    i,              \* index of the line (or result) the running loop is at
    symbol_table,   \* first_pass: symbol_table, then main's symbol_table
    address,        \* the running address of the pass that is executing
    machine_codes,  \* second_pass: machine_codes, then main's machine_codes
    stdout,         \* what main has printed
    stderr,         \* what main has printed to sys.stderr
    addr1,          \* history: first_pass's address on reaching each line
    given           \* history: how Init chose the input

vars == <<lines, pc, i, symbol_table, address, machine_codes, stdout, stderr,
          addr1, given>>

----------------------------------------------------------------------------
(* Characters and the str methods the code uses.                           *)

Lowercase == <<"a","b","c","d","e","f","g","h","i","j","k","l","m",
               "n","o","p","q","r","s","t","u","v","w","x","y","z">>
Uppercase == <<"A","B","C","D","E","F","G","H","I","J","K","L","M",
               "N","O","P","Q","R","S","T","U","V","W","X","Y","Z">>
DecDigits == <<"0","1","2","3","4","5","6","7","8","9">>
HexDigits == <<"0","1","2","3","4","5","6","7","8","9",
               "a","b","c","d","e","f">>

Range(s) == {s[k] : k \in DOMAIN s}

\* str.strip(), str.split() and the regular expression's \s
Whitespace == {" ", "\t", "\n"}

\* the regular expression's [a-zA-Z0-9_]
LabelChars == Range(Lowercase) \cup Range(Uppercase) \cup Range(DecDigits) \cup {"_"}

\* the position of c in the sequence s of distinct characters, or 0
PosIn(s, c) ==
    IF \E k \in DOMAIN s : s[k] = c
    THEN CHOOSE k \in DOMAIN s : s[k] = c
    ELSE 0

\* the length of the longest prefix of s made of characters of set
RECURSIVE span(_, _)
span(s, set) ==
    IF s # <<>> /\ Head(s) \in set THEN 1 + span(Tail(s), set) ELSE 0

\* the length of the longest prefix of s with no character of set
RECURSIVE cspan(_, _)
cspan(s, set) ==
    IF s # <<>> /\ Head(s) \notin set THEN 1 + cspan(Tail(s), set) ELSE 0

drop(s, n) == SubSeq(s, n + 1, Len(s))

lstrip(s) == drop(s, span(s, Whitespace))

RECURSIVE rstrip(_)
rstrip(s) ==
    IF s # <<>> /\ s[Len(s)] \in Whitespace
    THEN rstrip(SubSeq(s, 1, Len(s) - 1))
    ELSE s

\* str.strip()
strip(s) == rstrip(lstrip(s))

\* line.split('#')[0]
split_comment(s) == SubSeq(s, 1, cspan(s, {"#"}))

\* str.lower()
lower(s) ==
    [k \in DOMAIN s |->
        IF PosIn(Uppercase, s[k]) # 0 THEN Lowercase[PosIn(Uppercase, s[k])]
        ELSE s[k]]

\* line.replace(',', ' ').replace('(', ' ').replace(')', ' ')
replace_punctuation(s) ==
    [k \in DOMAIN s |-> IF s[k] \in {",", "(", ")"} THEN " " ELSE s[k]]

\* str.split(): the maximal runs of non-whitespace characters
RECURSIVE split(_)
split(s) ==
    LET t == lstrip(s)
        n == cspan(t, Whitespace)
    IN  IF t = <<>> THEN <<>> ELSE <<SubSeq(t, 1, n)>> \o split(drop(t, n))

\* re.match(r'^\s*([a-zA-Z0-9_]+):\s*(.*)', line): group 1 is the longest run
\* of label characters, which a colon must follow; group 2 is what follows the
\* colon and the whitespace after it, up to the end of the line
label_match(line) ==
    LET s1 == lstrip(line)
        n  == span(s1, LabelChars)
        s2 == lstrip(drop(s1, n + 1))
    IN  IF n >= 1 /\ Len(s1) > n /\ s1[n + 1] = ":"
        THEN [matched |-> TRUE,
              label |-> SubSeq(s1, 1, n),
              rest |-> SubSeq(s2, 1, cspan(s2, {"\n"}))]
        ELSE [matched |-> FALSE, label |-> <<>>, rest |-> <<>>]

\* int(s) of a token: an optional sign, then decimal digits, single
\* underscores allowed between digits
int_ok(s) ==
    LET body == IF s # <<>> /\ Head(s) \in {"+", "-"} THEN Tail(s) ELSE s
    IN  /\ body # <<>>
        /\ \A k \in DOMAIN body :
              \/ PosIn(DecDigits, body[k]) # 0
              \/ /\ body[k] = "_"
                 /\ 1 < k /\ k < Len(body)
                 /\ PosIn(DecDigits, body[k - 1]) # 0
                 /\ PosIn(DecDigits, body[k + 1]) # 0

RECURSIVE digits_value(_, _)
digits_value(s, acc) ==
    IF s = <<>> THEN acc
    ELSE IF Head(s) = "_" THEN digits_value(Tail(s), acc)
    ELSE digits_value(Tail(s), 10 * acc + (PosIn(DecDigits, Head(s)) - 1))

int_value(s) ==
    IF Head(s) = "-" THEN 0 - digits_value(Tail(s), 0)
    ELSE IF Head(s) = "+" THEN digits_value(Tail(s), 0)
    ELSE digits_value(s, 0)

\* str(n) of an integer
RECURSIVE str_nat(_)
str_nat(n) ==
    IF n < 10 THEN <<DecDigits[n + 1]>>
    ELSE str_nat(n \div 10) \o <<DecDigits[(n % 10) + 1]>>

str_int(n) == IF n < 0 THEN <<"-">> \o str_nat(0 - n) ELSE str_nat(n)

----------------------------------------------------------------------------
(* Binary and hexadecimal formatting.                                      *)

\* format(n, 'b') of n >= 0
RECURSIVE bin(_)
bin(n) ==
    IF n < 2 THEN <<DecDigits[n + 1]>>
    ELSE bin(n \div 2) \o <<DecDigits[(n % 2) + 1]>>

zeros(n) == [k \in 1..n |-> "0"]

\* zero padding on the left to at least width characters
zfill(s, width) == IF Len(s) >= width THEN s ELSE zeros(width - Len(s)) \o s

\* format(n, f'0{bits}b'): the sign, when there is one, counts in the width
format_b(n, bits) ==
    IF n < 0 THEN <<"-">> \o zfill(bin(0 - n), bits - 1)
    ELSE zfill(bin(n), bits)

to_binary(n, bits) ==
    format_b(IF n < 0 THEN 2 ^ bits + n ELSE n, bits)

\* int(binary_code, 2) succeeds on a string of binary digits; the code never
\* builds one that starts with a sign, so a '-' in it is an invalid literal
int2_ok(binary_code) ==
    binary_code # <<>> /\ \A k \in DOMAIN binary_code : binary_code[k] \in {"0", "1"}

\* the value of int(binary_code, 2), as its binary digits without leading zeros
int2_bits(binary_code) ==
    LET z == span(binary_code, {"0"})
    IN  IF z = Len(binary_code) THEN <<"0">> ELSE drop(binary_code, z)

\* the value of up to four binary digits
RECURSIVE bits_value(_, _)
bits_value(s, acc) ==
    IF s = <<>> THEN acc
    ELSE bits_value(Tail(s), 2 * acc + (PosIn(DecDigits, Head(s)) - 1))

RECURSIVE hex_of_nibbles(_)
hex_of_nibbles(s) ==
    IF s = <<>> THEN <<>>
    ELSE <<HexDigits[bits_value(SubSeq(s, 1, 4), 0) + 1]>> \o hex_of_nibbles(drop(s, 4))

\* format(value, '08x') of the value whose binary digits are bits
format_08x(bits) ==
    LET pad == (4 - (Len(bits) % 4)) % 4
        hex == hex_of_nibbles(zeros(pad) \o bits)
        z   == span(hex, {"0"})
    IN  zfill(IF z = Len(hex) THEN <<"0">> ELSE drop(hex, z), 8)

\* f"{n:#x}": the sign, '0x' and the hexadecimal digits
RECURSIVE hex_nat(_)
hex_nat(n) ==
    IF n < 16 THEN <<HexDigits[n + 1]>>
    ELSE hex_nat(n \div 16) \o <<HexDigits[(n % 16) + 1]>>

format_hash_x(n) ==
    IF n < 0 THEN <<"-", "0", "x">> \o hex_nat(0 - n) ELSE <<"0", "x">> \o hex_nat(n)

\* hex_code = format(int(binary_code, 2), '08x')
\* return f"0x{hex_code[:4]}_{hex_code[4:]}"
render_word(binary_code) ==
    LET hex_code == format_08x(int2_bits(binary_code))
    IN  <<"0", "x">> \o SubSeq(hex_code, 1, 4) \o <<"_">> \o drop(hex_code, 4)

----------------------------------------------------------------------------
(* The tables.                                                             *)

\* the named spellings of REGISTER_MAP, in the order of their numbers 0..31
REGISTER_NAMES == <<
    <<"$","z","e","r","o">>, <<"$","a","t">>, <<"$","v","0">>, <<"$","v","1">>,
    <<"$","a","0">>, <<"$","a","1">>, <<"$","a","2">>, <<"$","a","3">>,
    <<"$","t","0">>, <<"$","t","1">>, <<"$","t","2">>, <<"$","t","3">>,
    <<"$","t","4">>, <<"$","t","5">>, <<"$","t","6">>, <<"$","t","7">>,
    <<"$","s","0">>, <<"$","s","1">>, <<"$","s","2">>, <<"$","s","3">>,
    <<"$","s","4">>, <<"$","s","5">>, <<"$","s","6">>, <<"$","s","7">>,
    <<"$","t","8">>, <<"$","t","9">>, <<"$","k","0">>, <<"$","k","1">>,
    <<"$","g","p">>, <<"$","s","p">>, <<"$","f","p">>, <<"$","r","a">>>>

\* REGISTER_MAP: each register's named spelling and its numeric spelling
\* ('$' followed by its number) map to its number
REGISTER_MAP ==
    [s \in Range(REGISTER_NAMES) \cup {<<"$">> \o str_nat(n) : n \in 0..31} |->
        IF PosIn(REGISTER_NAMES, s) # 0 THEN PosIn(REGISTER_NAMES, s) - 1
        ELSE int_value(Tail(s))]

ADD  == <<"a","d","d">>
SUB  == <<"s","u","b">>
AND  == <<"a","n","d">>
OR   == <<"o","r">>
SLT  == <<"s","l","t">>
SLL  == <<"s","l","l">>
ADDI == <<"a","d","d","i">>
LW   == <<"l","w">>
SW   == <<"s","w">>
BEQ  == <<"b","e","q">>
BNE  == <<"b","n","e">>
J    == <<"j">>

\* INSTRUCTIONS (0x20 = 32, 0x22 = 34, 0x24 = 36, 0x25 = 37, 0x2a = 42,
\* 0x23 = 35, 0x2b = 43)
INSTRUCTIONS ==
    (ADD  :> [type |-> "R", funct |-> 32]) @@
    (SUB  :> [type |-> "R", funct |-> 34]) @@
    (AND  :> [type |-> "R", funct |-> 36]) @@
    (OR   :> [type |-> "R", funct |-> 37]) @@
    (SLT  :> [type |-> "R", funct |-> 42]) @@
    (SLL  :> [type |-> "R", funct |-> 0]) @@
    (ADDI :> [type |-> "I", opcode |-> 8]) @@
    (LW   :> [type |-> "I", opcode |-> 35]) @@
    (SW   :> [type |-> "I", opcode |-> 43]) @@
    (BEQ  :> [type |-> "I", opcode |-> 4]) @@
    (BNE  :> [type |-> "I", opcode |-> 5]) @@
    (J    :> [type |-> "J", opcode |-> 2])

----------------------------------------------------------------------------
(* assemble: one line of assembly to its machine word.                     *)

\* a returned string, and a raised ValueError: its message is modelled by the
\* kind of the condition and the text the message quotes
Return(code) == [ok |-> TRUE, code |-> code, kind |-> "", arg |-> <<>>]
Raise(kind, arg) == [ok |-> FALSE, code |-> <<>>, kind |-> kind, arg |-> arg]

\* parse_register raises on a string that is no key of REGISTER_MAP
parse_register_ok(reg_str) == reg_str \in DOMAIN REGISTER_MAP
parse_register(reg_str) == REGISTER_MAP[reg_str]

\* the first string of regs, in the order the code parses them, that
\* parse_register raises on (<<>> when there is none)
RECURSIVE unknown_register(_)
unknown_register(regs) ==
    IF regs = <<>> THEN <<>>
    ELSE IF ~parse_register_ok(Head(regs)) THEN Head(regs)
    ELSE unknown_register(Tail(regs))

\* the last two lines of assemble; int() raises the ValueError itself
finish(binary_code) ==
    IF int2_ok(binary_code) THEN Return(render_word(binary_code))
    ELSE Raise("InvalidLiteral", binary_code)

\* r_type_code with the rs and rt fields in each other's place
r_type_code_swapped(rs, rt, rd, shamt, funct) ==
    zeros(6) \o to_binary(rt, 5) \o to_binary(rs, 5) \o to_binary(rd, 5)
             \o to_binary(shamt, 5) \o to_binary(funct, 6)

\* f"000000{rs}{rt}{rd}{shamt}{funct}"
r_type_code(rs, rt, rd, shamt, funct) ==
    zeros(6) \o to_binary(rs, 5) \o to_binary(rt, 5) \o to_binary(rd, 5)
             \o to_binary(shamt, 5) \o to_binary(funct, 6)

\* f"{opcode}{rs}{rt}{immediate}"
i_type_code(opcode, rs, rt, immediate) ==
    to_binary(opcode, 6) \o to_binary(rs, 5) \o to_binary(rt, 5)
                         \o to_binary(immediate, 16)

\* f"{opcode}{jump_target}" with jump_target = target_address >> 2
j_type_code(opcode, target_address) ==
    to_binary(opcode, 6) \o to_binary(target_address \div 4, 26)

\* branch_immediate relative to the branch itself, not to what follows it
branch_immediate_from_branch(target_address, current_address) ==
    (target_address - current_address) \div 4

\* offset = target_address - (current_address + 4); immediate = offset >> 2
branch_immediate(target_address, current_address) ==
    (target_address - (current_address + 4)) \div 4

\* jump_target_aligned accepting every address
jump_target_any(target_address) == TRUE

\* if target_address % 4 != 0: raise ValueError(f"... {target_address:#x} ...")
jump_target_aligned(target_address) == target_address % 4 = 0

assemble_R(mnemonic, info, operands) ==
    IF Len(operands) # 3 THEN Raise("OperandCountMismatch", mnemonic)
    ELSE IF mnemonic = SLL THEN
        \* sll $rd, $rt, shamt; a shift amount out of range raises inside the
        \* try, and the except clause replaces that error by its own
        LET bad == unknown_register(<<operands[1], operands[2]>>)
        IN  IF bad # <<>> THEN Raise("UnknownRegister", bad)
            ELSE IF ~int_ok(operands[3]) THEN Raise("InvalidShiftAmount", mnemonic)
            ELSE IF ~(0 <= int_value(operands[3]) /\ int_value(operands[3]) < 32)
                 THEN Raise("InvalidShiftAmount", mnemonic)
            ELSE finish(r_type_code(0, parse_register(operands[2]),
                                    parse_register(operands[1]),
                                    int_value(operands[3]), info.funct))
    ELSE
        \* op $rd, $rs, $rt
        LET bad == unknown_register(operands)
        IN  IF bad # <<>> THEN Raise("UnknownRegister", bad)
            ELSE finish(r_type_code(parse_register(operands[2]),
                                    parse_register(operands[3]),
                                    parse_register(operands[1]), 0, info.funct))

assemble_I(mnemonic, info, operands, table, current_address) ==
    IF mnemonic \in {LW, SW} THEN
        \* rt, immediate, rs: the registers are parsed before the immediate
        IF Len(operands) # 3 THEN Raise("OperandCountMismatch", mnemonic)
        ELSE LET bad == unknown_register(<<operands[1], operands[3]>>)
             IN  IF bad # <<>> THEN Raise("UnknownRegister", bad)
                 ELSE IF ~int_ok(operands[2]) THEN Raise("InvalidImmediate", mnemonic)
                 ELSE finish(i_type_code(info.opcode, parse_register(operands[3]),
                                         parse_register(operands[1]),
                                         int_value(operands[2])))
    ELSE IF mnemonic \in {BEQ, BNE} THEN
        IF Len(operands) # 3 THEN Raise("OperandCountMismatch", mnemonic)
        ELSE LET bad == unknown_register(<<operands[1], operands[2]>>)
                 label == operands[3]
                 immediate ==
                     IF label \in DOMAIN table
                     THEN branch_immediate(table[label], current_address)
                     ELSE int_value(label)
             IN  IF bad # <<>> THEN Raise("UnknownRegister", bad)
                 ELSE IF label \notin DOMAIN table /\ ~int_ok(label)
                      THEN Raise("InvalidLabelOrImmediate", label)
                 ELSE IF ~(-32768 <= immediate /\ immediate <= 32767)
                      THEN Raise("BranchOffsetOutOfRange", mnemonic)
                 ELSE finish(i_type_code(info.opcode, parse_register(operands[1]),
                                         parse_register(operands[2]), immediate))
    ELSE
        \* addi: rt, rs, immediate
        IF Len(operands) # 3 THEN Raise("OperandCountMismatch", mnemonic)
        ELSE LET bad == unknown_register(<<operands[1], operands[2]>>)
             IN  IF bad # <<>> THEN Raise("UnknownRegister", bad)
                 ELSE IF ~int_ok(operands[3]) THEN Raise("InvalidImmediate", mnemonic)
                 ELSE finish(i_type_code(info.opcode, parse_register(operands[2]),
                                         parse_register(operands[1]),
                                         int_value(operands[3])))

assemble_J(mnemonic, info, operands, table) ==
    IF Len(operands) # 1 THEN Raise("OperandCountMismatch", mnemonic)
    ELSE LET label == operands[1]
             target_address ==
                 IF label \in DOMAIN table THEN table[label] ELSE int_value(label)
         IN  IF label \notin DOMAIN table /\ ~int_ok(label)
             THEN Raise("InvalidLabelOrAddress", label)
             ELSE IF ~jump_target_aligned(target_address)
                  THEN Raise("UnalignedJumpTarget", format_hash_x(target_address))
             ELSE finish(j_type_code(info.opcode, target_address))

assemble(line, table, current_address) ==
    LET parts == split(replace_punctuation(strip(line)))
        mnemonic == lower(parts[1])
        info == INSTRUCTIONS[mnemonic]
        operands == Tail(parts)
    IN  IF parts = <<>> THEN Return(<<>>)
        ELSE IF mnemonic \notin DOMAIN INSTRUCTIONS
             THEN Raise("UnsupportedInstruction", parts[1])
        ELSE IF info.type = "R" THEN assemble_R(mnemonic, info, operands)
        ELSE IF info.type = "I"
             THEN assemble_I(mnemonic, info, operands, table, current_address)
        ELSE assemble_J(mnemonic, info, operands, table)

----------------------------------------------------------------------------
(* first_pass, second_pass and main.                                       *)

\* label_defined never finding the label: a later definition replaces the earlier
label_never_defined(label, table) == FALSE

\* if label in symbol_table: raise
label_defined(label, table) == label \in DOMAIN table

\* labelled_line_address advancing on a label-only line too
labelled_line_address_always(addr, instruction_part) == addr + 4

\* symbol_table[label] = address; if instruction_part: address += 4
labelled_line_address(addr, instruction_part) ==
    IF instruction_part # <<>> THEN addr + 4 ELSE addr

\* one iteration of first_pass's loop: what it leaves in symbol_table and
\* address, or the ValueError it raises
first_pass_line(original_line, table, addr) ==
    LET line == strip(split_comment(original_line))
        match == label_match(line)
        label == match.label
        instruction_part == strip(match.rest)
    IN  IF line = <<>>
        THEN [raised |-> FALSE, symbol_table |-> table, address |-> addr]
        ELSE IF match.matched
        THEN IF label_defined(label, table)
             THEN [raised |-> TRUE, kind |-> "DuplicateLabel", arg |-> label]
             ELSE [raised |-> FALSE,
                   symbol_table |-> (label :> addr) @@ table,
                   address |-> labelled_line_address(addr, instruction_part)]
        ELSE [raised |-> FALSE, symbol_table |-> table, address |-> addr + 4]

\* skipped_line_codes appending a 'no code' result for the skipped line
skipped_line_no_code(codes, original_line) ==
    Append(codes, [line |-> original_line, none |-> TRUE, code |-> <<>>])

\* a line second_pass skips appends nothing
skipped_line_codes(codes, original_line) == codes

\* machine_codes.append((original_line, None)); continue
label_only_codes(codes, original_line) ==
    Append(codes, [line |-> original_line, none |-> TRUE, code |-> <<>>])

\* no_instruction_address advancing as after an instruction
no_instruction_address_advanced(addr) == addr + 4

\* the address second_pass goes on with after a line that holds no instruction
no_instruction_address(addr) == addr

\* machine_codes.append((original_line, code))
encoded_codes(codes, original_line, code) ==
    Append(codes, [line |-> original_line, none |-> FALSE, code |-> code])

\* wrapped_error quoting the instruction text instead of the original line
wrapped_error_residue(original_line, instruction_part, e) ==
    [kind |-> e.kind, arg |-> e.arg, wrapped |-> TRUE, line |-> instruction_part]

\* raise ValueError(f"... '{original_line.strip()}'): {e}")
wrapped_error(original_line, instruction_part, e) ==
    [kind |-> e.kind, arg |-> e.arg, wrapped |-> TRUE, line |-> strip(original_line)]

\* one iteration of second_pass's loop
second_pass_line(original_line, table, addr, codes) ==
    LET line == strip(split_comment(original_line))
        match == label_match(line)
        instruction_part == IF match.matched THEN strip(match.rest) ELSE line
        result == assemble(instruction_part, table, addr)
    IN  IF line = <<>>
        THEN [raised |-> FALSE,
              machine_codes |-> skipped_line_codes(codes, original_line),
              address |-> no_instruction_address(addr)]
        ELSE IF instruction_part = <<>>
        THEN [raised |-> FALSE,
              machine_codes |-> label_only_codes(codes, original_line),
              address |-> no_instruction_address(addr)]
        ELSE IF result.ok
        THEN [raised |-> FALSE,
              machine_codes |-> encoded_codes(codes, original_line, result.code),
              address |-> addr + 4]
        ELSE [raised |-> TRUE,
              error |-> wrapped_error(original_line, instruction_part, result)]

\* what main prints before it assembles, and before the results
Printed(what) == [what |-> what, code |-> <<>>, text |-> <<>>]

\* print(f"{code}\t# {original_line.strip()}")
printed_result(entry) ==
    [what |-> "result", code |-> entry.code, text |-> strip(entry.line)]

\* if code: an entry whose code is None or the empty string prints nothing
code_is_printed(entry) == ~entry.none /\ entry.code # <<>>

FirstPassLine ==
    /\ pc = "first_pass"
    /\ i <= Len(lines)
    /\ LET r == first_pass_line(lines[i], symbol_table, address)
       IN  IF r.raised
           THEN /\ pc' = "error"
                /\ stderr' = Append(stderr, [kind |-> r.kind, arg |-> r.arg,
                                             wrapped |-> FALSE, line |-> <<>>])
                /\ UNCHANGED <<i, symbol_table, address, addr1>>
           ELSE /\ symbol_table' = r.symbol_table
                /\ address' = r.address
                /\ addr1' = Append(addr1, address)
                /\ i' = i + 1
                /\ UNCHANGED <<pc, stderr>>
    /\ UNCHANGED <<lines, machine_codes, stdout, given>>

\* first_pass returns symbol_table; second_pass starts with address = 0
FirstPassReturn ==
    /\ pc = "first_pass"
    /\ i > Len(lines)
    /\ pc' = "second_pass"
    /\ i' = 1
    /\ address' = 0
    /\ machine_codes' = <<>>
    /\ UNCHANGED <<lines, symbol_table, stdout, stderr, addr1, given>>

SecondPassLine ==
    /\ pc = "second_pass"
    /\ i <= Len(lines)
    /\ LET r == second_pass_line(lines[i], symbol_table, address, machine_codes)
       IN  IF r.raised
           THEN /\ pc' = "error"
                /\ stderr' = Append(stderr, r.error)
                /\ UNCHANGED <<i, address, machine_codes>>
           ELSE /\ machine_codes' = r.machine_codes
                /\ address' = r.address
                /\ i' = i + 1
                /\ UNCHANGED <<pc, stderr>>
    /\ UNCHANGED <<lines, symbol_table, stdout, addr1, given>>

\* second_pass returns machine_codes; main prints the header of the results
SecondPassReturn ==
    /\ pc = "second_pass"
    /\ i > Len(lines)
    /\ pc' = "print"
    /\ i' = 1
    /\ stdout' = Append(stdout, Printed("header"))
    /\ UNCHANGED <<lines, symbol_table, address, machine_codes, stderr, addr1, given>>

\* for original_line, code in machine_codes: if code: print(...)
PrintLine ==
    /\ pc = "print"
    /\ i <= Len(machine_codes)
    /\ stdout' = IF code_is_printed(machine_codes[i])
                 THEN Append(stdout, printed_result(machine_codes[i]))
                 ELSE stdout
    /\ i' = i + 1
    /\ UNCHANGED <<lines, pc, symbol_table, address, machine_codes, stderr, addr1, given>>

PrintReturn ==
    /\ pc = "print"
    /\ i > Len(machine_codes)
    /\ pc' = "done"
    /\ UNCHANGED <<lines, i, symbol_table, address, machine_codes, stdout, stderr,
                   addr1, given>>

Next ==
    \/ FirstPassLine
    \/ FirstPassReturn
    \/ SecondPassLine
    \/ SecondPassReturn
    \/ PrintLine
    \/ PrintReturn

\* main up to the call of first_pass, on the input lines
Start(input, how) ==
    /\ lines = input
    /\ pc = "first_pass"
    /\ i = 1
    /\ symbol_table = <<>>
    /\ address = 0
    /\ machine_codes = <<>>
    /\ stdout = <<Printed("title"), Printed("prompt"), Printed("accepted")>>
    /\ stderr = <<>>
    /\ addr1 = <<>>
    /\ given = how

----------------------------------------------------------------------------
(* Programs: every sequence of at most MaxLines of these lines.            *)

MaxLines == 3

\* an empty line
LineBlank == <<"\n">>
\* a comment-only line
LineComment == <<" "," ","#"," ","c","\n">>
\* a label-only line
LineLabel == <<"L",":","\n">>
\* a label, an instruction and a comment
LineLabelAdd == <<"L",":"," ","a","d","d"," ","$","t","0",","," ","$","s","0",","," ","$","s","1"," ","#"," ","x","\n">>
\* a branch to a label
LineBeq == <<"b","e","q"," ","$","t","0",","," ","$","z","e","r","o",","," ","L","\n">>
\* an indented branch, mnemonic in upper case
LineBne == <<"\t","B","N","E"," ","$","8",",","$","9",",","M"," ","#"," ","u","p","\n">>
\* a label and a jump to a label
LineJump == <<"M",":"," ","j"," ","L","\n">>
\* an instruction, the input's last line without its newline
LineAddi == <<"a","d","d","i"," ","$","t","1",",","$","z","e","r","o",",","5">>
\* an unsupported mnemonic
LineFoo == <<"f","o","o"," ","$","t","0",",","$","t","1",",","$","t","2","\n">>
\* separators only
LineComma == <<" ",","," ","\n">>

SourceLines ==
    {LineBlank, LineComment, LineLabel, LineLabelAdd, LineBeq, LineBne, LineJump,
     LineAddi, LineFoo, LineComma}

Programs == UNION {[1..n -> SourceLines] : n \in 0..MaxLines}

Init == \E input \in Programs : Start(input, [kind |-> "program"])

Spec == Init /\ [][Next]_vars

----------------------------------------------------------------------------
(* What the properties speak of.                                           *)

\* a line after comment stripping, and the label prefix found on it
Stripped(l) == strip(split_comment(l))
Prefix(l) == label_match(Stripped(l))

\* the instruction text of a line: what is left after the comment and after a
\* 'label:' prefix
Residue(l) == IF Prefix(l).matched THEN strip(Prefix(l).rest) ELSE Stripped(l)

BlankLine(l) == Stripped(l) = <<>>
NonBlankLine(l) == ~BlankLine(l)
LabelOnlyLine(l) == ~BlankLine(l) /\ Residue(l) = <<>>
InstructionBearing(l) == ~BlankLine(l) /\ Residue(l) # <<>>

\* the number of instruction-bearing lines strictly before line k
BearingBefore(k) == Cardinality({j \in 1..(k - 1) : InstructionBearing(lines[j])})

\* the lines that define a label, and the lines that define one again
LabelLines == {k \in 1..Len(lines) : Prefix(lines[k]).matched}
Redefinitions ==
    {k \in LabelLines :
        \E j \in LabelLines : j < k /\ Prefix(lines[j]).label = Prefix(lines[k]).label}
Least(S) == CHOOSE k \in S : \A j \in S : k <= j

FirstPassSucceeded ==
    \/ pc \in {"second_pass", "print", "done"}
    \/ pc = "error" /\ stderr[1].wrapped

Results == SelectSeq(stdout, LAMBDA p : p.what = "result")

\* the tokens of a line's instruction text
Tokens(l) == split(replace_punctuation(Residue(l)))

\* a rendered word 0xHHHH_HHHH: its eight hexadecimal digits, their binary
\* digits, and the value of a field of them
RECURSIVE nibble_bits(_)
nibble_bits(hex) ==
    IF hex = <<>> THEN <<>>
    ELSE zfill(bin(PosIn(HexDigits, Head(hex)) - 1), 4) \o nibble_bits(Tail(hex))

IsWord(code) ==
    /\ Len(code) = 11
    /\ code[1] = "0" /\ code[2] = "x" /\ code[7] = "_"
    /\ \A k \in {3, 4, 5, 6, 8, 9, 10, 11} : PosIn(HexDigits, code[k]) # 0

WordBits(code) == nibble_bits(SubSeq(code, 3, 6) \o SubSeq(code, 8, 11))

\* bits first..last of the word, counted from the most significant, bit 1
Field(code, first, last) == bits_value(SubSeq(WordBits(code), first, last), 0)

----------------------------------------------------------------------------
(* C1: when first_pass succeeds, every label stands in the symbol table at  *)
(* 4 times the number of instruction-bearing lines strictly before the      *)
(* line that defines it; the running address starts at 0, is 4 times the    *)
(* number of instruction-bearing lines passed, so a blank or label-only     *)
(* line leaves it alone and an instruction-bearing line adds 4; every       *)
(* address in the table is a non-negative multiple of 4.                    *)
C1_LabelAddresses ==
    /\ pc = "first_pass" => address = 4 * BearingBefore(i)
    /\ \A label \in DOMAIN symbol_table :
          symbol_table[label] >= 0 /\ symbol_table[label] % 4 = 0
    /\ FirstPassSucceeded =>
          /\ DOMAIN symbol_table = {Prefix(lines[k]).label : k \in LabelLines}
          /\ \A k \in LabelLines :
                symbol_table[Prefix(lines[k]).label] = 4 * BearingBefore(k)

\* a label on the third line, after one instruction and one line without
C1_Witness ==
    /\ FirstPassSucceeded
    /\ Len(lines) = 3
    /\ 3 \in LabelLines
    /\ symbol_table[Prefix(lines[3]).label] = 4
    /\ \E j \in {1, 2} : LabelOnlyLine(lines[j]) \/ BlankLine(lines[j])

----------------------------------------------------------------------------
(* C9: at every line the second pass's running address is the address the   *)
(* first pass had at that line: both are 4 times the number of              *)
(* instruction-bearing lines before it, and an instruction on a labelled    *)
(* line is encoded at the address recorded for the label.                   *)
C9_PassesAgree ==
    /\ pc = "first_pass" =>
          /\ Len(addr1) = i - 1
          /\ \A k \in 1..Len(addr1) : addr1[k] = 4 * BearingBefore(k)
    /\ (pc = "second_pass" /\ i <= Len(lines)) \/ (pc = "error" /\ stderr[1].wrapped) =>
          /\ address = addr1[i]
          /\ address = 4 * BearingBefore(i)
          /\ i \in LabelLines => symbol_table[Prefix(lines[i]).label] = address
    /\ pc = "second_pass" /\ i > Len(lines) => address = 4 * BearingBefore(i)

\* the second pass at a labelled instruction, after an instruction and a line
\* that holds none
C9_Witness ==
    /\ pc = "second_pass"
    /\ i = 3
    /\ address = 4
    /\ i \in LabelLines
    /\ InstructionBearing(lines[3])
    /\ \E j \in {1, 2} : LabelOnlyLine(lines[j]) \/ BlankLine(lines[j])

----------------------------------------------------------------------------
(* C3: when a label is defined on two lines the run fails with              *)
(* DuplicateLabel in the first pass, at the first line that defines a       *)
(* label again, whatever that line or an earlier line holds: no line is     *)
(* encoded and no result is printed.                                        *)
C3_DuplicateLabel ==
    Redefinitions # {} =>
        /\ pc \in {"first_pass", "error"}
        /\ pc = "first_pass" => i <= Least(Redefinitions)
        /\ pc = "error" =>
              /\ i = Least(Redefinitions)
              /\ stderr = <<[kind |-> "DuplicateLabel", arg |-> Prefix(lines[i]).label,
                             wrapped |-> FALSE, line |-> <<>>]>>
        /\ machine_codes = <<>>
        /\ Results = <<>>

\* a bare label line defines L again, after a line that cannot be encoded
C3_Witness ==
    /\ pc = "error"
    /\ stderr[1].kind = "DuplicateLabel"
    /\ lines = <<LineFoo, LineLabelAdd, LineLabel>>

----------------------------------------------------------------------------
(* C2: the offset a branch to a label is encoded with.                     *)

\* a branch with three operands, the third a label of the symbol table
LabelBranch(l) ==
    /\ InstructionBearing(l)
    /\ Len(Tokens(l)) = 4
    /\ lower(Tokens(l)[1]) \in {BEQ, BNE}
    /\ Tokens(l)[4] \in DOMAIN symbol_table

(* C2: a beq or bne whose third operand is a label of the symbol table is   *)
(* encoded with the 16-bit two's complement of                              *)
(* (labelAddress - (branchAddress + 4)) / 4 as its immediate field, where   *)
(* branchAddress is the first pass's address at the branch line; the        *)
(* division is exact.  A label at 8 and a branch at 0 give 1.  (Stated of   *)
(* the line the second pass has just gone past: the result appended last    *)
(* is that line's.)                                                         *)
C2_BranchOffset ==
    pc = "second_pass" /\ i > 1 /\ LabelBranch(lines[i - 1]) =>
        LET entry == machine_codes[Len(machine_codes)]
            labelAddress == symbol_table[Tokens(lines[i - 1])[4]]
            branchAddress == addr1[i - 1]
            distance == labelAddress - (branchAddress + 4)
        IN  /\ entry.line = lines[i - 1]
            /\ ~entry.none
            /\ IsWord(entry.code)
            /\ distance % 4 = 0
            /\ Field(entry.code, 17, 32) = (distance \div 4) % 65536
            /\ labelAddress = 8 /\ branchAddress = 0 => Field(entry.code, 17, 32) = 1

\* the branch at address 0 to the label at address 8, two lines further
C2_Witness ==
    /\ pc = "second_pass"
    /\ i = 2
    /\ LabelBranch(lines[1])
    /\ symbol_table[Tokens(lines[1])[4]] = 8
    /\ Field(machine_codes[1].code, 17, 32) = 1

----------------------------------------------------------------------------
(* C4: a line that fails to encode in the second pass.                     *)

\* line k cannot be encoded at the address the first pass gave it
Fails(k) ==
    /\ InstructionBearing(lines[k])
    /\ ~assemble(Residue(lines[k]), symbol_table, addr1[k]).ok

SecondPassFailed == pc = "error" /\ stderr[1].wrapped

\* the run ends in an error that carries text; the failing line is the first
\* failing line in input order, no line after it is encoded, and no result
\* is printed, not even those of the lines encoded before it
ErrorStateCarries(text) ==
    /\ SecondPassFailed =>
          /\ Len(stderr) = 1
          /\ stderr[1].line = text
          /\ Fails(i)
          /\ \A j \in 1..(i - 1) : ~Fails(j)
          /\ Len(machine_codes) = Cardinality({j \in 1..(i - 1) : NonBlankLine(lines[j])})
          /\ Results = <<>>
          /\ ~ENABLED Next
          /\ lines[i] = LineFoo => stderr[1].kind = "UnsupportedInstruction"
    /\ pc \in {"print", "done"} => \A k \in 1..Len(lines) : ~Fails(k)

(* C4, as amended: when a line fails to encode in the second pass, the run  *)
(* ends in an error that carries the original text of that line without its *)
(* leading and trailing whitespace; the line is the first failing line in   *)
(* input order, no line after it is encoded, and no result is printed.      *)
C4_FirstErrorStripped ==
    ErrorStateCarries(IF SecondPassFailed THEN strip(lines[i]) ELSE <<>>)

(* C4, as stated: when a line fails to encode in the second pass, the run   *)
(* ends in an error that carries the original text of that line; the line   *)
(* is the first failing line in input order, no line after it is encoded,   *)
(* and no result is printed.                                                *)
C4_Original ==
    ErrorStateCarries(IF SecondPassFailed THEN lines[i] ELSE <<>>)

\* the unsupported mnemonic fails after a line was encoded and before another
C4_Witness ==
    /\ SecondPassFailed
    /\ lines = <<LineAddi, LineFoo, LineBeq>>
    /\ Len(machine_codes) = 1

----------------------------------------------------------------------------
(* C5: the results the second pass returns.                                *)
SecondPassSucceeded == pc \in {"print", "done"}

ResultOf(entry, k) ==
    /\ entry.line = lines[k]
    /\ IF LabelOnlyLine(lines[k]) THEN entry.none /\ entry.code = <<>>
       ELSE /\ ~entry.none
            /\ entry.code = assemble(Residue(lines[k]), symbol_table, addr1[k]).code
            /\ IF Tokens(lines[k]) = <<>> THEN entry.code = <<>> ELSE IsWord(entry.code)

(* C5, as amended: on success the second pass returns one result for each   *)
(* line that is not blank after comment stripping, in input order, and none *)
(* for a blank or comment-only line; a label-only line yields a 'no code'   *)
(* result, and every other line yields the pair of its original text and    *)
(* what assemble returned: the encoded word, or the empty string for an     *)
(* instruction text made of separators only.                                *)
C5_ResultPerNonBlankLine ==
    SecondPassSucceeded =>
        LET kept == SelectSeq([k \in 1..Len(lines) |-> k], LAMBDA k : NonBlankLine(lines[k]))
        IN  /\ Len(machine_codes) = Len(kept)
            /\ \A n \in 1..Len(kept) : ResultOf(machine_codes[n], kept[n])

(* C5, as stated: on success the second pass returns one result for every  *)
(* input line, in input order: 'no code' for a blank or label-only line and *)
(* the pair (original text, encoded word) for any other.                    *)
C5_Original ==
    SecondPassSucceeded =>
        /\ Len(machine_codes) = Len(lines)
        /\ \A k \in 1..Len(lines) :
              IF BlankLine(lines[k]) \/ LabelOnlyLine(lines[k])
              THEN machine_codes[k].none
              ELSE /\ machine_codes[k].line = lines[k]
                   /\ ~machine_codes[k].none
                   /\ IsWord(machine_codes[k].code)

\* a blank line between a label-only line and an instruction
C5_Witness ==
    /\ SecondPassSucceeded
    /\ lines = <<LineLabel, LineBlank, LineAddi>>
    /\ Len(machine_codes) = 2
    /\ machine_codes[1].none
    /\ IsWord(machine_codes[2].code)

----------------------------------------------------------------------------
(* Single instructions: a program of one line, rendered from a mnemonic,   *)
(* register numbers, the spelling of the registers and a number.           *)

\* a register's named or numeric spelling
register_text(n, style) ==
    IF style = "name" THEN REGISTER_NAMES[n + 1] ELSE <<"$">> \o str_nat(n)

SampleRegisters == {0, 8, 17, 31}

\* the register triples with at most one register outside the sample
RegisterTriples ==
    {t \in (0..31) \X (0..31) \X (0..31) :
        Cardinality({k \in 1..3 : t[k] \notin SampleRegisters}) <= 1}

Immediates ==
    {-70000, -65537, -65536, -32769, -32768, -1, 0, 5, 32767, 32768, 65535, 65536, 70000}

JumpTargets ==
    {-268435460, -268435456, -6, -4, 0, 1, 4, 6, 8, 268435452, 268435456}

OtherInstructions ==
    {<<"s","l","l"," ","$","t","0",","," ","$","t","1",","," ","3","1","\n">>,
     <<"s","l","l"," ","$","t","0",","," ","$","t","1",","," ","3","2","\n">>,
     <<"s","l","l"," ","$","t","0",","," ","$","t","1",","," ","x","\n">>,
     <<"S","L","L"," ","$","2",","," ","$","3",","," ","0","\n">>,
     <<"b","e","q"," ","$","t","0",","," ","$","t","1",","," ","-","3","2","7","6","9","\n">>,
     <<"b","n","e"," ","$","t","0",","," ","$","t","1",","," ","-","1","\n">>,
     <<"b","e","q"," ","$","t","0",","," ","$","t","1",","," ","3","2","7","6","8","\n">>,
     <<"b","n","e"," ","$","s","0",","," ","$","s","1",","," ","7","\n">>,
     <<"b","e","q"," ","$","t","0",","," ","$","t","1",","," ","f","a","r","\n">>,
     <<"a","d","d"," ","$","t","0",","," ","$","t","1","\n">>,
     <<"a","d","d"," ","$","t","0",","," ","$","3","2",","," ","$","t","1","\n">>,
     <<"j","\n">>,
     <<"j"," ","t","h","e","r","e","\n">>,
     <<"l","w"," ","$","t","0",","," ","x","(","$","t","1",")","\n">>,
     <<"a","d","d","i"," ","$","t","0",","," ","$","t","1",","," ","0","x","1","0","\n">>,
     <<"j"," ","1","_","6","\n">>,
     <<"s","w"," ","$","t","0",","," ","4","(","$","t","x",")","\n">>}

GivenInstructions ==
    {[kind |-> "R", mnemonic |-> m, regs |-> t, style |-> st, number |-> 0, text |-> <<>>] :
        m \in {ADD, SUB, AND, OR, SLT}, t \in RegisterTriples, st \in {"name", "number"}}
    \cup
    {[kind |-> "I", mnemonic |-> m, regs |-> t, style |-> st, number |-> n, text |-> <<>>] :
        m \in {ADDI, LW, SW}, t \in SampleRegisters \X SampleRegisters,
        st \in {"name", "number"}, n \in Immediates}
    \cup
    {[kind |-> "J", mnemonic |-> J, regs |-> <<>>, style |-> "name", number |-> n, text |-> <<>>] :
        n \in JumpTargets}
    \cup
    {[kind |-> "other", mnemonic |-> <<>>, regs |-> <<>>, style |-> "name", number |-> 0, text |-> t] :
        t \in OtherInstructions}

\* the source text of a given instruction: op rd, rs, rt; addi rt, rs, imm;
\* lw rt, imm(rs); j target
Render(g) ==
    LET reg(k) == register_text(g.regs[k], g.style)
    IN  CASE g.kind = "R" ->
                g.mnemonic \o <<" ">> \o reg(1) \o <<",", " ">> \o reg(2)
                           \o <<",", " ">> \o reg(3) \o <<"\n">>
          [] g.kind = "I" /\ g.mnemonic = ADDI ->
                g.mnemonic \o <<" ">> \o reg(1) \o <<",", " ">> \o reg(2)
                           \o <<",", " ">> \o str_int(g.number) \o <<"\n">>
          [] g.kind = "I" /\ g.mnemonic # ADDI ->
                g.mnemonic \o <<" ">> \o reg(1) \o <<",", " ">> \o str_int(g.number)
                           \o <<"(">> \o reg(2) \o <<")", "\n">>
          [] g.kind = "J" -> g.mnemonic \o <<" ">> \o str_int(g.number) \o <<"\n">>
          [] OTHER -> g.text

InitEncode == \E g \in GivenInstructions : Start(<<Render(g)>>, g)

SpecEncode == InitEncode /\ [][Next]_vars

\* the run has encoded its one line
Encoded == (pc = "second_pass" /\ i = 2) \/ pc \in {"print", "done"}

----------------------------------------------------------------------------
(* C7: add, sub, and, or, slt with registers rd, rs, rt in source order     *)
(* encode to rs*2^21 + rt*2^16 + rd*2^11 + funct: opcode 0 and shift amount *)
(* 0; 'add $t0, $s0, $s1' gives 0x02114020; the word depends on the         *)
(* registers' numbers only, so both spellings of a register give it.        *)
C7_RTypeWord ==
    given.kind = "R" =>
        /\ pc # "error"
        /\ Encoded =>
              LET code == machine_codes[1].code
                  rd == given.regs[1]
                  rs == given.regs[2]
                  rt == given.regs[3]
                  funct == INSTRUCTIONS[given.mnemonic].funct
              IN  /\ Len(machine_codes) = 1
                  /\ IsWord(code)
                  /\ Field(code, 1, 6) = 0
                  /\ Field(code, 22, 26) = 0
                  /\ Field(code, 1, 32) = rs * 2^21 + rt * 2^16 + rd * 2^11 + funct
                  /\ given.mnemonic = ADD /\ given.regs = <<8, 16, 17>> =>
                        code = <<"0","x","0","2","1","1","_","4","0","2","0">>
        /\ pc = "done" =>
              Results = <<[what |-> "result", code |-> machine_codes[1].code,
                           text |-> strip(lines[1])]>>

\* 'add $t0, $s0, $s1' is assembled and printed
C7_Witness ==
    /\ pc = "done"
    /\ given.kind = "R" /\ given.mnemonic = ADD /\ given.regs = <<8, 16, 17>>
    /\ given.style = "name"
    /\ Results[1].code = <<"0","x","0","2","1","1","_","4","0","2","0">>

----------------------------------------------------------------------------
(* C8: a j whose operand resolves to an address that is no multiple of 4    *)
(* fails with UnalignedJumpTarget and emits no word.                        *)
C8_UnalignedJump ==
    given.kind = "J" /\ given.number % 4 # 0 =>
        /\ pc \in {"first_pass", "second_pass", "error"}
        /\ pc = "second_pass" => i = 1
        /\ pc = "error" =>
              /\ Len(stderr) = 1
              /\ stderr[1].kind = "UnalignedJumpTarget"
              /\ stderr[1].wrapped
              /\ stderr[1].line = strip(lines[1])
        /\ machine_codes = <<>>
        /\ Results = <<>>

\* 'j 6' has failed
C8_Witness ==
    /\ pc = "error"
    /\ given.kind = "J" /\ given.number = 6
    /\ stderr[1].kind = "UnalignedJumpTarget"

----------------------------------------------------------------------------
(* C6, as stated: addi, lw and sw with valid registers and any integer      *)
(* immediate encode without an error, the low 16 bits of the word being the *)
(* immediate modulo 2^16 and the upper 16 bits the opcode, rs and rt, in a   *)
(* word below 2^32.                                                         *)
C6_Original ==
    given.kind = "I" =>
        /\ pc # "error"
        /\ Encoded =>
              LET code == machine_codes[1].code
              IN  /\ IsWord(code)
                  /\ Field(code, 17, 32) = given.number % 65536
                  /\ Field(code, 1, 6) = INSTRUCTIONS[given.mnemonic].opcode
                  /\ Field(code, 7, 11) = given.regs[2]
                  /\ Field(code, 12, 16) = given.regs[1]

----------------------------------------------------------------------------
(* C10, as stated: a j whose operand resolves to a multiple of 4 is encoded *)
(* as a word of exactly 8 hexadecimal digits, 0xHHHH_HHHH, whose top 6 bits *)
(* are 000010 and whose low 26 bits are the address shifted right by 2.     *)
C10_Original ==
    given.kind = "J" /\ given.number % 4 = 0 =>
        /\ pc # "error"
        /\ Encoded =>
              LET code == machine_codes[1].code
              IN  /\ IsWord(code)
                  /\ Field(code, 1, 6) = 2
                  /\ Field(code, 7, 32) = (given.number \div 4) % (2^26)

====
